---- MODULE Spec2Model ----
(***************************************************************************)
(* Model of the JOEL QR gateway (DanyPM/qr-joel): the /qrcode image        *)
(* endpoint and the two versions of the landing page handler ("/").        *)
(*                                                                         *)
(* Strings whose characters matter are sequences of one-character strings. *)
(* A query parameter or environment variable is an optional string:        *)
(* Undefined, or Str(s).  A handler run is recorded as the sequence of     *)
(* its effects in program order: directory lookups, responses, analytics   *)
(* events.                                                                 *)
(***************************************************************************)
EXTENDS Integers, Sequences, FiniteSets, TLC

VARIABLES env, pc, endpoint, req, effects

vars == <<env, pc, endpoint, req, effects>>

---------------------------------------------------------------------------
(* Bounds of the model                                                     *)

MaxNameLen == 3
MaxIdLen == 2
MaxMatches == 2

---------------------------------------------------------------------------
(* Optional strings and JavaScript string primitives                       *)

Undefined == [def |-> FALSE, val |-> <<>>]
Str(s) == [def |-> TRUE, val |-> s]

\* x ?? ""
OrEmpty(x) == IF x.def THEN x.val ELSE <<>>

\* All sequences over S of length at most n
SeqsUpTo(S, n) == UNION {[1..k -> S] : k \in 0..n}

\* String.prototype.split(" "): one piece more than there are spaces
RECURSIVE SplitFrom(_, _, _)
SplitFrom(s, i, cur) ==
  IF i > Len(s) THEN <<cur>>
  ELSE IF s[i] = " " THEN <<cur>> \o SplitFrom(s, i + 1, <<>>)
  ELSE SplitFrom(s, i + 1, Append(cur, s[i]))

Split(s) == SplitFrom(s, 1, <<>>)

\* The non-empty tokens of a split
NonEmptyTokens(s) == SelectSeq(Split(s), LAMBDA t : t # <<>>)

UpperChar(c) ==
  CASE c = "q" -> "Q"
    [] c = "x" -> "X"
    [] OTHER -> c

ToUpperCase(s) == [i \in 1..Len(s) |-> UpperChar(s[i])]

StartsWith(s, p) == Len(s) >= Len(p) /\ SubSeq(s, 1, Len(p)) = p

\* Boolean(string): every non-empty string is truthy
BooleanOf(s) == Len(s) > 0

Digits == {"0", "1", "2", "3", "4", "5", "6", "7", "8", "9"}

DigitVal(c) ==
  CASE c = "0" -> 0 [] c = "1" -> 1 [] c = "2" -> 2 [] c = "3" -> 3
    [] c = "4" -> 4 [] c = "5" -> 5 [] c = "6" -> 6 [] c = "7" -> 7
    [] c = "8" -> 8 [] c = "9" -> 9

\* parseInt: the value of the leading digits; NaN when there are none
RECURSIVE ParseDigits(_, _, _)
ParseDigits(s, i, acc) ==
  IF i > Len(s) \/ s[i] \notin Digits THEN acc
  ELSE ParseDigits(s, i + 1, 10 * acc + DigitVal(s[i]))

ParseInt(x) ==
  IF x.def /\ Len(x.val) > 0 /\ x.val[1] \in Digits
  THEN [nan |-> FALSE, n |-> ParseDigits(x.val, 1, 0)]
  ELSE [nan |-> TRUE, n |-> 0]

\* encodeURI on the characters of the model's alphabet
EncodeChar(c) ==
  CASE c = " " -> <<"%", "2", "0">>
    [] c = "%" -> <<"%", "2", "5">>
    [] OTHER -> <<c>>

RECURSIVE EncodeURI(_)
EncodeURI(s) ==
  IF s = <<>> THEN <<>> ELSE EncodeChar(Head(s)) \o EncodeURI(Tail(s))

\* String.prototype.replace(pattern, replacement): first occurrence only
RECURSIVE ReplaceFrom(_, _, _, _)
ReplaceFrom(s, pat, rep, i) ==
  IF i + Len(pat) - 1 > Len(s) THEN s
  ELSE IF SubSeq(s, i, i + Len(pat) - 1) = pat
       THEN SubSeq(s, 1, i - 1) \o rep \o SubSeq(s, i + Len(pat), Len(s))
       ELSE ReplaceFrom(s, pat, rep, i + 1)

Replace(s, pat, rep) == ReplaceFrom(s, pat, rep, 1)

---------------------------------------------------------------------------
(* String constants of the program                                         *)

FalseString == <<"f", "a", "l", "s", "e">>
TrueString == <<"t", "r", "u", "e">>
QMarker == <<"Q">>

NameParam == <<"?", "n", "a", "m", "e", "=">>
QrOrganisationParam ==
  <<"?", "&", "o", "r", "g", "a", "n", "i", "s", "a", "t", "i", "o", "n", "=">>
QrFunctionTagParam ==
  <<"?", "&", "f", "u", "n", "c", "t", "i", "o", "n", "_", "t", "a", "g", "=">>
OrganisationParam ==
  <<"?", "o", "r", "g", "a", "n", "i", "s", "a", "t", "i", "o", "n", "=">>
FunctionTagParam ==
  <<"?", "f", "u", "n", "c", "t", "i", "o", "n", "_", "t", "a", "g", "=">>
FrameFalseParam ==
  <<"&", "f", "r", "a", "m", "e", "=", "f", "a", "l", "s", "e">>

Rechercher == <<"R", "e", "c", "h", "e", "r", "c", "h", "e", "r">>
Suivre == <<"S", "u", "i", "v", "r", "e">>
RechercherCmd == Rechercher \o <<" ">>
SuivreOCmd == Suivre \o <<"O", " ">>
SuivreFCmd == Suivre \o <<"F", " ">>

SampleLabel == <<"S", "a", "m", "p", "l", "e", " ", "l", "a", "b", "e", "l">>

\* Error messages of the handlers, under the names of the error taxonomy
SizeFrameConflict == "Cannot use fixed size and frame at the same tile."
InvalidPersonName ==
  "Name parameter must be composed two words minimum: firstname lastname."
AmbiguousTarget ==
  "Parameters people, function_tag and organisations are exclusive."
VerificationRequired ==
  "Verification is mandatory when fetching organisation with WikidataId."
TargetNotFoundPerson == "No result found on JORFSearch for person"
TargetNotFoundOrganisation == "No result found on JORFSearch for organisation"
TargetNotFoundTag == "No result found on JORFSearch."
TargetNotFound ==
  {TargetNotFoundPerson, TargetNotFoundOrganisation, TargetNotFoundTag}
AmbiguousDirectoryMatch == "Too many results found on JORFSearch."
NoTarget == "qr_url not initialized"
LabelNotFound == "Follow label not found."
QrFailure == "QR code generation failed."
PageFailure == "Page generation failed."

HOME_WEBSITE_URL == "joel-officiel.fr"
DEFAULT_QRCODE_SIZE == 500

---------------------------------------------------------------------------
(* Process environment, fixed at startup                                   *)

BotName == <<"b">>

\* Values of an environment variable: unset, empty, set
EnvValues == {Undefined, Str(<<>>), Str(BotName)}

\* X ? ... : null  (a link base exists when the variable is truthy)
Truthy(x) == x.def /\ BooleanOf(x.val)

\* X != null
NotNull(x) == x.def

hasWhatsapp(e) == NotNull(e.WHATSAPP_BOT__PHONE_NUMBER)
hasTelegram(e) == NotNull(e.TELEGRAM_BOT_NAME)
hasMatrix(e) == NotNull(e.MATRIX_BOT_USERNAME)
hasTchap(e) == NotNull(e.TCHAP_BOT_USERNAME)

whatsappLinkBase(e) ==
  IF Truthy(e.WHATSAPP_BOT__PHONE_NUMBER)
  THEN Str("https://wa.me/${WHATSAPP_BOT__PHONE_NUMBER}?text=Bonjour JOEL!")
  ELSE Undefined

telegramLinkBase(e) ==
  IF Truthy(e.TELEGRAM_BOT_NAME)
  THEN Str("https://t.me/${TELEGRAM_BOT_NAME}?text=Bonjour JOEL!")
  ELSE Undefined

matrixLinkBase(e) ==
  IF Truthy(e.MATRIX_BOT_USERNAME)
  THEN Str("https://matrix.to/#/@${MATRIX_BOT_USERNAME}")
  ELSE Undefined

tchapLinkBase(e) ==
  IF Truthy(e.TCHAP_BOT_USERNAME)
  THEN Str("https://www.tchap.gouv.fr/#/@${TCHAP_BOT_USERNAME}")
  ELSE Undefined

\* The startup check: the process throws unless a messenger is configured
StartupOk(e) == hasTelegram(e) \/ hasWhatsapp(e) \/ hasMatrix(e) \/ hasTchap(e)

Environments ==
  [isDev : BOOLEAN,
   WHATSAPP_BOT__PHONE_NUMBER : EnvValues,
   TELEGRAM_BOT_NAME : EnvValues,
   MATRIX_BOT_USERNAME : EnvValues,
   TCHAP_BOT_USERNAME : EnvValues]

\* The deployments explored by Spec: development and production, with
\* WhatsApp and Telegram set, Matrix set to the empty string, Tchap unset
Deployments ==
  {e \in Environments :
     /\ e.WHATSAPP_BOT__PHONE_NUMBER = Str(BotName)
     /\ e.TELEGRAM_BOT_NAME = Str(BotName)
     /\ e.MATRIX_BOT_USERNAME = Str(<<>>)
     /\ e.TCHAP_BOT_USERNAME = Undefined}

APP_URL(e) ==
  IF e.isDev THEN "http://localhost" ELSE "https://links.joel-officiel.fr"
APP_URL_WITH_PORT(e) == [origin |-> APP_URL(e), port |-> "3000", path |-> ""]
APP_URL_WITH_PORT_QR(e) ==
  [origin |-> APP_URL(e), port |-> "3000", path |-> "/qrcode"]

\* base + query string
Url(base, query) == [base |-> base, query |-> query]

---------------------------------------------------------------------------
(* Requests                                                                *)

NameChars == {"a", " "}
IdChars == {"q", "Q", "x"}
TagValue == <<"t">>
SizeValue == <<"3", "0", "0">>

OptionalOf(S) == {Undefined} \cup {Str(s) : s \in S}

NameParams == OptionalOf(SeqsUpTo(NameChars, MaxNameLen))
OrganisationParams == OptionalOf(SeqsUpTo(IdChars, MaxIdLen))
FunctionTagParams == OptionalOf({<<>>, TagValue})
VerifyParams == OptionalOf({<<>>, FalseString, TrueString})
SizeParams == OptionalOf({<<>>, SizeValue})
FrameParams == OptionalOf({FalseString, TrueString})

\* req.query of a /qrcode request
QrQueries ==
  [name : NameParams, organisation_id : OrganisationParams,
   function_tag : FunctionTagParams, verify : VerifyParams,
   size : SizeParams, frame : FrameParams, mobile : {FALSE}]

\* req.query of a landing page request, and whether the user agent is mobile
LandingQueries ==
  [name : NameParams, organisation_id : OrganisationParams,
   function_tag : FunctionTagParams, verify : VerifyParams,
   size : {Undefined}, frame : {Undefined}, mobile : BOOLEAN]

NoQuery ==
  [name |-> Undefined, organisation_id |-> Undefined,
   function_tag |-> Undefined, verify |-> Undefined,
   size |-> Undefined, frame |-> Undefined, mobile |-> FALSE]

---------------------------------------------------------------------------
(* Directory client (JORFSearch): replies to the three lookups             *)

PersonRow(i) ==
  [prenom |-> <<"J">>, nom |-> IF i = 1 THEN <<"D">> ELSE <<"E">>]

OrganisationRow(i) ==
  IF i = 1 THEN [id |-> <<"Q">>, name |-> <<"A">>]
  ELSE [id |-> <<"X">>, name |-> <<"B">>]

TagRow(i) == [tag |-> TagValue]

PeopleRows(n) == [i \in 1..n |-> PersonRow(i)]
OrganisationRows(n) == [i \in 1..n |-> OrganisationRow(i)]
TagRows(n) == [i \in 1..n |-> TagRow(i)]

\* A lookup returns a list of matches, or throws (transport error)
Thrown == [ok |-> FALSE, rows |-> <<>>]
Returned(rows) == [ok |-> TRUE, rows |-> rows]

PeopleReplies == {Thrown} \cup {Returned(PeopleRows(n)) : n \in 0..MaxMatches}
OrganisationReplies ==
  {Thrown} \cup {Returned(OrganisationRows(n)) : n \in 0..MaxMatches}
TagReplies == {Thrown} \cup {Returned(TagRows(n)) : n \in 0..MaxMatches}

---------------------------------------------------------------------------
(* Effects of a handler run, in program order                              *)

\* A lookup that was issued, with the reply the directory gave to it
Lookup(kind, arg, reply) ==
  [op |-> "lookup", kind |-> kind, arg |-> arg, reply |-> reply]
Json(status, error, arg) ==
  [op |-> "json", status |-> status, error |-> error, arg |-> arg]
Redirect(url) == [op |-> "redirect", status |-> 302, url |-> url]
\* umami.log: development logs to the console; otherwise the event is
\* posted, and an error of the post is caught and logged
Log(event, outcome) == [op |-> "log", event |-> event, outcome |-> outcome]
\* An awaited image or file operation that rejected
Throw(step) == [op |-> "throw", step |-> step]

\* The effects that are responses
ResponseOps == {"json", "image", "html", "redirect"}
Responses(eff) == SelectSeq(eff, LAMBDA x : x.op \in ResponseOps)
Lookups(eff) == SelectSeq(eff, LAMBDA x : x.op = "lookup")

\* res.send of a PNG: qr_url is the URL before encoding, qr the bitmap of
\* generateQrWithLogo, composite the layers flattened onto the frame
Image(framed, label, qr_url, qr, composite) ==
  [op |-> "image", status |-> 200, framed |-> framed, label |-> label,
   qr_url |-> qr_url, qr |-> qr, composite |-> composite]

NullUrl == [def |-> FALSE, val |-> Url([origin |-> "", port |-> "", path |-> ""], <<>>)]
SomeUrl(u) == [def |-> TRUE, val |-> u]

\* encodeURI of a URL: the base holds no character that is escaped
EncodeUrl(u) == Url(u.base, EncodeURI(u.query))

---------------------------------------------------------------------------
(* Analytics sink, image files                                             *)

\* The analytics host answers the post, or the post fails
Sinks == {"up", "down"}

\* log(): no post in development; try { await axios.post } catch { log }
SinkOutcome(e, sink) ==
  IF e.isDev THEN "console" ELSE IF sink = "up" THEN "posted" ELSE "caught"

\* Mutant: the error of the post is not caught
LogRejectsUncaught(outcome) == outcome = "caught"

\* The promise of log() never rejects: the error of the post is caught
LogRejects(outcome) == FALSE

\* frame.png: unreadable, or of W x H pixels
FrameUnreadable == [ok |-> FALSE, width |-> 0, height |-> 0]
Frame(w, h) == [ok |-> TRUE, width |-> w, height |-> h]
FrameFiles == {FrameUnreadable, Frame(1000, 1400), Frame(1001, 1111)}

\* What a /qrcode run meets: the sink, whether generateQrWithLogo resolves,
\* the frame file
QrWorlds == [sink : Sinks, qr : BOOLEAN, frame : FrameFiles]

\* Math.round((a) / 2) and Math.round(h * p / 100) on integers
RoundHalf(a) == (a + 1) \div 2
RoundPercent(h, p) == (2 * h * p + 100) \div 200

---------------------------------------------------------------------------
(* Steps shared by the handlers                                            *)

\* let verifyOnJORFSearch = true;
\* if (req.query.verify != undefined) verifyOnJORFSearch = Boolean(req.query.verify)
VerifyOnJORFSearch(q) == IF q.verify.def THEN BooleanOf(q.verify.val) ELSE TRUE

\* name.split(" ").length < 2
NameRejected(name) == Len(Split(name)) < 2

\* JORFResult.length === 0
NoResult(rows) == Len(rows) = 0

\* Mutant: the first match is picked
TooManyResultsPicksFirst(rows) == FALSE

\* JORFResult.length > 1
TooManyResults(rows) == Len(rows) > 1

\* Mutant: the label is taken from the id
OrganisationNameFromId(rows) == rows[1].id

\* JORFResult[0].id and JORFResult[0].name
OrganisationId(rows) == rows[1].id
OrganisationName(rows) == rows[1].name

\* `${JORFResult[0].prenom} ${JORFResult[0].nom}`
PrenomNom(rows) == rows[1].prenom \o <<" ">> \o rows[1].nom

Finish(ep, q, eff) ==
  /\ pc' = "done"
  /\ endpoint' = ep
  /\ req' = q
  /\ effects' = eff
  /\ UNCHANGED env

---------------------------------------------------------------------------
(* GET /qrcode                                                             *)

QR_SIZE_DEFAULT == 600

\* let frameEnabled = true;
\* if (req.query.frame != undefined && req.query.frame === "false") frameEnabled = false
FrameEnabled(q) == ~(q.frame.def /\ q.frame.val = FalseString)

\* Mutant: the parsed size is tested instead of the parameter's presence
SizeFrameConflictsParsed(q) == ~ParseInt(q.size).nan /\ FrameEnabled(q)

\* req.query.size != undefined && frameEnabled
SizeFrameConflicts(q) == q.size.def /\ FrameEnabled(q)

\* let qr_code_size = parseInt(size); if (isNaN(qr_code_size)) qr_code_size = 500
QrCodeSize(q) ==
  IF ParseInt(q.size).nan THEN DEFAULT_QRCODE_SIZE ELSE ParseInt(q.size).n

\* generateQrWithLogo: encodes encodeURI(qr_url) at the default qrSize
generateQrWithLogo(qr_url) ==
  [data |-> EncodeUrl(qr_url), width |-> QR_SIZE_DEFAULT]

QrEvent(followType) ==
  CASE followType = "people" -> "/qr-people"
    [] followType = "organisation" -> "/qr-organisation"
    [] followType = "function_tag" -> "/qr-tag"

\* Nothing is composited when frame=false
NoComposite ==
  [width |-> 0, height |-> 0, layers |-> <<>>]

\* frame.composite([{qrBuffer, left, top}, {textBuffer, left: 0, top}])
Composite(frame, qr_code_size) ==
  [width |-> frame.width, height |-> frame.height,
   layers |-> << [input |-> "qr",
                  left |-> RoundHalf(frame.width - qr_code_size),
                  top |-> RoundPercent(frame.height, 45)],
                 [input |-> "text", left |-> 0,
                  top |-> RoundPercent(frame.height, 35)] >>]

\* From `if (!qr_url)` to the end of the handler
QrCodeRender(e, q, w, followType, followLabel, qr_url, pre) ==
  IF ~qr_url.def THEN pre \o <<Json(400, NoTarget, <<>>)>>
  ELSE IF ~w.qr
  THEN pre \o <<Throw("generateQrWithLogo"), Json(500, QrFailure, <<>>)>>
  ELSE LET qrBuffer == generateQrWithLogo(EncodeUrl(qr_url.val))
           qr_code_size == QrCodeSize(q)
           frame == w.frame
           outcome == SinkOutcome(e, w.sink)
       IN IF ~FrameEnabled(q)
          THEN pre \o <<Image(FALSE, followLabel, qr_url.val, qrBuffer,
                              NoComposite)>>
          ELSE IF ~frame.ok
          THEN pre \o <<Throw("frame"), Json(500, QrFailure, <<>>)>>
          ELSE pre
               \o <<Image(TRUE, followLabel, qr_url.val, qrBuffer,
                          Composite(frame, qr_code_size)),
                    Log(QrEvent(followType), outcome)>>
               \o (IF LogRejects(outcome)
                   THEN <<Json(500, QrFailure, <<>>)>> ELSE <<>>)

\* case "people"
QrCodePeople(e, q, w, verify, reply) ==
  LET name == OrEmpty(q.name)
      call == <<Lookup("people", name, reply)>>
      url(n) == SomeUrl(Url(APP_URL_WITH_PORT(e), NameParam \o n))
  IN IF verify
     THEN IF ~reply.ok THEN call \o <<Json(500, QrFailure, <<>>)>>
          ELSE IF NoResult(reply.rows)
          THEN call \o <<Json(400, TargetNotFoundPerson, name)>>
          ELSE QrCodeRender(e, q, w, "people", Str(PrenomNom(reply.rows)),
                            url(PrenomNom(reply.rows)), call)
     ELSE QrCodeRender(e, q, w, "people", Str(name), url(name), <<>>)

\* case "organisation"
QrCodeOrganisation(e, q, w, verify, reply) ==
  LET organisation_id == OrEmpty(q.organisation_id)
      call == <<Lookup("organisation", organisation_id, reply)>>
  IN IF ~verify /\ ~StartsWith(organisation_id, QMarker)
     THEN <<Json(400, VerificationRequired, <<>>)>>
     ELSE IF verify
     THEN IF ~reply.ok THEN call \o <<Json(500, QrFailure, <<>>)>>
          ELSE IF NoResult(reply.rows)
          THEN call \o <<Json(400, TargetNotFoundOrganisation, organisation_id)>>
          ELSE IF TooManyResults(reply.rows)
          THEN call \o <<Json(400, AmbiguousDirectoryMatch, <<>>)>>
          ELSE QrCodeRender(e, q, w, "organisation", Str(OrganisationName(reply.rows)),
                 SomeUrl(Url(APP_URL_WITH_PORT(e),
                             QrOrganisationParam \o organisation_id)), call)
     ELSE QrCodeRender(e, q, w, "organisation", Undefined, NullUrl, <<>>)

\* case "function_tag"
QrCodeFunctionTag(e, q, w, verify, reply) ==
  LET function_tag == OrEmpty(q.function_tag)
      call == <<Lookup("function_tag", function_tag, reply)>>
      url == SomeUrl(Url(APP_URL_WITH_PORT(e), QrFunctionTagParam \o function_tag))
  IN IF verify
     THEN IF ~reply.ok THEN call \o <<Json(500, QrFailure, <<>>)>>
          ELSE IF NoResult(reply.rows)
          THEN call \o <<Json(400, TargetNotFoundTag, <<>>)>>
          ELSE QrCodeRender(e, q, w, "function_tag", Str(function_tag), url, call)
     ELSE QrCodeRender(e, q, w, "function_tag", Str(function_tag), url, <<>>)

\* A lookup is awaited only when the handler verifies
RepliesIf(verify, replies) == IF verify THEN replies ELSE {Thrown}

\* app.get("/qrcode")
QrCode ==
  /\ pc = "idle"
  /\ \E q \in QrQueries :
       LET name == OrEmpty(q.name)
           organisation_id == OrEmpty(q.organisation_id)
           function_tag == OrEmpty(q.function_tag)
           isPeople == Len(name) > 0
           isOrganisation == Len(organisation_id) > 0
           isFunctionTag == Len(function_tag) > 0
           \* organisation: must verify to get the name from JORF
           verify == IF isOrganisation THEN TRUE ELSE VerifyOnJORFSearch(q)
           answer(eff) == Finish("/qrcode", q, eff)
       IN IF SizeFrameConflicts(q)
          THEN answer(<<Json(400, SizeFrameConflict, <<>>)>>)
          ELSE IF isPeople /\ NameRejected(name)
          THEN answer(<<Json(400, InvalidPersonName, <<>>)>>)
          ELSE IF isOrganisation /\ isPeople
          THEN answer(<<Json(400, AmbiguousTarget, <<>>)>>)
          ELSE IF isFunctionTag /\ (isPeople \/ isOrganisation)
          THEN answer(<<Json(400, AmbiguousTarget, <<>>)>>)
          ELSE IF isPeople
          THEN \E r \in RepliesIf(verify, PeopleReplies), w \in QrWorlds :
                 answer(QrCodePeople(env, q, w, verify, r))
          ELSE IF isOrganisation
          THEN \E r \in RepliesIf(verify, OrganisationReplies), w \in QrWorlds :
                 answer(QrCodeOrganisation(env, q, w, verify, r))
          ELSE IF isFunctionTag
          THEN \E r \in RepliesIf(verify, TagReplies), w \in QrWorlds :
                 answer(QrCodeFunctionTag(env, q, w, verify, r))
          ELSE \E w \in QrWorlds :
                 answer(QrCodeRender(env, q, w, "none", Undefined, NullUrl,
                                     <<>>))

---------------------------------------------------------------------------
(* GET /  (landing page)                                                   *)
(* Two versions of the handler are in the repository: the one rendering    *)
(* main.html ("main") and the one rendering choose.html ("choose").        *)

Html(page, startCommand) ==
  [op |-> "html", status |-> 200, page |-> page, startCommand |-> startCommand]

\* The handler's locals after a parameter block; eff: the effects so far
Locals(followType, followArg, followLabel, qr_url, eff) ==
  [followType |-> followType, followArg |-> followArg,
   followLabel |-> followLabel, qr_url |-> qr_url, eff |-> eff]

PageFailed(eff) == eff \o <<Json(500, PageFailure, <<>>)>>

LinkEvent(followType) ==
  CASE followType = "people" -> "/link-people"
    [] followType = "organisation" -> "/link-organisation"
    [] followType = "function_tag" -> "/link-tag"
    [] OTHER -> "/link-default"

StartVerb(followType) ==
  CASE followType = "people" -> RechercherCmd
    [] followType = "organisation" -> SuivreOCmd
    [] followType = "function_tag" -> SuivreFCmd

\* startCommand.replace("Suivre", "Rechercher")
SmoothFlowCommand(startCommand) == Replace(startCommand, Suivre, Rechercher)

\* encodeURI(`${linkBase} ${smoothFlowCommand}`)
CommandLink(linkBase, command) ==
  IF linkBase.def
  THEN Str([base |-> linkBase.val, tail |-> EncodeURI(<<" ">> \o command)])
  ELSE [def |-> FALSE, val |-> [base |-> "", tail |-> <<>>]]

\* content.replace("{MATRIX_LINK}", matrixLinkBase)
BaseLink(linkBase) ==
  IF linkBase.def
  THEN Str([base |-> linkBase.val, tail |-> <<>>])
  ELSE [def |-> FALSE, val |-> [base |-> "", tail |-> <<>>]]

\* encodeURI(qr_url + "&frame=false")
QrImageUrl(qr_url) ==
  SomeUrl(EncodeUrl(Url(qr_url.val.base, qr_url.val.query \o FrameFalseParam)))

\* The placeholders of the template after substitution.  A messenger's
\* block is in the page when hasX; its link placeholder is replaced when
\* its link base is set.
Page(e, template, qrcode, hiddenQr, label, L, startCommand) ==
  [template |-> template,
   QRCODE |-> qrcode,
   HIDDEN_QR |-> hiddenQr,
   FOLLOW_LABEL |-> label,
   PAGE_TITLE |-> IF Truthy(L.followArg) THEN L.followArg ELSE Undefined,
   BASE_URL |-> APP_URL_WITH_PORT(e),
   WHATSAPP_BLOCK |-> hasWhatsapp(e),
   TELEGRAM_BLOCK |-> hasTelegram(e),
   MATRIX_BLOCK |-> hasMatrix(e),
   TCHAP_BLOCK |-> hasTchap(e),
   WHATSAPP_LINK |->
     CommandLink(whatsappLinkBase(e), SmoothFlowCommand(startCommand)),
   TELEGRAM_LINK |->
     CommandLink(telegramLinkBase(e), SmoothFlowCommand(startCommand)),
   MATRIX_LINK |-> BaseLink(matrixLinkBase(e)),
   TCHAP_LINK |-> BaseLink(tchapLinkBase(e))]

\* From `let startCommand = null` to the end of the handler
LandingCommand(e, sink, template, qrcode, hiddenQr, label, L) ==
  LET followArg == OrEmpty(L.followArg)
      outcome == SinkOutcome(e, sink)
      \* await umami.log({ event }) inside the switch
      logged == L.eff \o <<Log(LinkEvent(L.followType), outcome)>>
  IN IF LogRejects(outcome) THEN PageFailed(logged)
     ELSE IF L.followType = "none"
     THEN logged \o <<Redirect("https://" \o HOME_WEBSITE_URL)>>
     ELSE LET startCommand == StartVerb(L.followType) \o followArg
          IN logged \o
             <<Html(Page(e, template, qrcode, hiddenQr, label, L, startCommand),
                    startCommand)>>

\* main.html version: from "Hide the QR code if already on mobile"
LandingRenderMain(e, sink, q, L) ==
  IF ~L.qr_url.def /\ ~e.isDev
  THEN L.eff \o <<Redirect(APP_URL(e))>>
  ELSE LET isMobile == IF ~L.qr_url.def THEN TRUE ELSE q.mobile
           followLabel == IF ~L.qr_url.def THEN Str(SampleLabel) ELSE L.followLabel
           qrcode == IF isMobile /\ L.qr_url.def THEN QrImageUrl(L.qr_url)
                     ELSE NullUrl
       IN IF ~followLabel.def
          THEN L.eff \o <<Json(400, LabelNotFound, <<>>)>>
          ELSE LandingCommand(e, sink, "main.html", qrcode, FALSE, followLabel, L)

\* choose.html version: from `if (!qr_url)`
LandingRenderChoose(e, sink, q, L) ==
  IF ~L.qr_url.def
  THEN L.eff \o <<Json(400, NoTarget, <<>>)>>
  ELSE LandingCommand(e, sink, "choose.html", QrImageUrl(L.qr_url), q.mobile,
                      IF Truthy(L.followArg) THEN L.followArg ELSE Undefined, L)

LandingRender(e, sink, version, q, L) ==
  IF version = "main" THEN LandingRenderMain(e, sink, q, L)
  ELSE LandingRenderChoose(e, sink, q, L)

LandingEndpoint(version) == IF version = "main" THEN "/" ELSE "/ (choose)"

\* The choose.html version issues no tag lookup
TagLookupIssued(version, verify) == version = "main" /\ verify

\* if (req.query.function_tag != undefined) { ... }
LandingFunctionTag(e, version, q, verify, L) ==
  LET followArg == q.function_tag.val
      call(r) == L.eff \o <<Lookup("function_tag", followArg, r)>>
      answer(eff) == Finish(LandingEndpoint(version), q, eff)
      render(locals) ==
        \E sink \in Sinks : answer(LandingRender(e, sink, version, q, locals))
      resolved(eff) ==
        Locals("function_tag", Str(followArg), L.followLabel,
               SomeUrl(Url(APP_URL_WITH_PORT_QR(e), FunctionTagParam \o followArg)),
               eff)
  IN IF ~q.function_tag.def THEN render(L)
     ELSE IF L.followType # "none"
     THEN answer(L.eff \o <<Json(400, AmbiguousTarget, <<>>)>>)
     ELSE IF TagLookupIssued(version, verify)
     THEN \E r \in TagReplies :
            IF ~r.ok THEN answer(PageFailed(call(r)))
            ELSE IF NoResult(r.rows)
            THEN answer(call(r) \o <<Json(400, TargetNotFoundTag, <<>>)>>)
            ELSE render(resolved(call(r)))
     ELSE render(resolved(L.eff))

\* !verifyOnJORFSearch && followArg.startsWith("Q")
LandingVerificationRequired(verify, followArg) ==
  ~verify /\ StartsWith(followArg, QMarker)

\* if (req.query.organisation_id != undefined) { ... }
LandingOrganisation(e, version, q, verify, L) ==
  LET followArg == ToUpperCase(q.organisation_id.val)
      call(r) == L.eff \o <<Lookup("organisation", followArg, r)>>
      answer(eff) == Finish(LandingEndpoint(version), q, eff)
      url(id) == SomeUrl(Url(APP_URL_WITH_PORT_QR(e), OrganisationParam \o id))
  IN IF ~q.organisation_id.def THEN LandingFunctionTag(e, version, q, verify, L)
     ELSE IF L.followType # "none"
     THEN answer(L.eff \o <<Json(400, AmbiguousTarget, <<>>)>>)
     ELSE IF LandingVerificationRequired(verify, followArg)
     THEN answer(L.eff \o <<Json(400, VerificationRequired, <<>>)>>)
     ELSE IF verify
     THEN \E r \in OrganisationReplies :
            IF ~r.ok THEN answer(PageFailed(call(r)))
            ELSE IF NoResult(r.rows)
            THEN answer(call(r) \o <<Json(400, TargetNotFoundOrganisation, followArg)>>)
            ELSE IF TooManyResults(r.rows)
            THEN answer(call(r) \o <<Json(400, AmbiguousDirectoryMatch, <<>>)>>)
            ELSE LandingFunctionTag(e, version, q, verify,
                   Locals("organisation", Str(OrganisationId(r.rows)),
                          Str(OrganisationName(r.rows)),
                          url(OrganisationId(r.rows)), call(r)))
     ELSE LandingFunctionTag(e, version, q, verify,
            Locals("organisation", Str(followArg), L.followLabel,
                   url(followArg), L.eff))

\* if (req.query.name != undefined) { ... }
LandingName(e, version, q, verify) ==
  LET followArg == q.name.val
      call(r) == <<Lookup("people", followArg, r)>>
      answer(eff) == Finish(LandingEndpoint(version), q, eff)
      none == Locals("none", Undefined, Undefined, NullUrl, <<>>)
  IN IF ~q.name.def THEN LandingOrganisation(e, version, q, verify, none)
     ELSE IF NameRejected(followArg)
     THEN answer(<<Json(400, InvalidPersonName, <<>>)>>)
     ELSE IF verify
     THEN \E r \in PeopleReplies :
            IF ~r.ok THEN answer(PageFailed(call(r)))
            ELSE IF NoResult(r.rows)
            THEN answer(call(r) \o <<Json(400, TargetNotFoundPerson, followArg)>>)
            ELSE LandingOrganisation(e, version, q, verify,
                   Locals("people", Str(PrenomNom(r.rows)), Str(PrenomNom(r.rows)),
                          SomeUrl(Url(APP_URL_WITH_PORT_QR(e),
                                      NameParam \o PrenomNom(r.rows))), call(r)))
     ELSE LandingOrganisation(e, version, q, verify,
            Locals("people", Str(followArg), Str(followArg), NullUrl, <<>>))

\* app.get("/") rendering main.html
Landing ==
  /\ pc = "idle"
  /\ \E q \in LandingQueries : LandingName(env, "main", q, VerifyOnJORFSearch(q))

\* app.get("/") rendering choose.html
LandingChoose ==
  /\ pc = "idle"
  /\ \E q \in LandingQueries : LandingName(env, "choose", q, VerifyOnJORFSearch(q))

---------------------------------------------------------------------------
(* Specification                                                           *)

Init ==
  /\ env \in {e \in Deployments : StartupOk(e)}
  /\ pc = "idle"
  /\ endpoint = ""
  /\ req = NoQuery
  /\ effects = <<>>

Next == QrCode \/ Landing \/ LandingChoose

Spec == Init /\ [][Next]_vars

---------------------------------------------------------------------------
(* Vocabulary of the properties                                            *)

Done == pc = "done"

OnQrCode == endpoint = "/qrcode"
OnLandingMain == endpoint = "/"
OnLandingChoose == endpoint = "/ (choose)"

\* The parameter is present and not the empty string
NonEmpty(x) == x.def /\ x.val # <<>>

TargetParamCount ==
  Cardinality({k \in {"name", "organisation_id", "function_tag"} : NonEmpty(req[k])})

OnlyName == req.name.def /\ ~req.organisation_id.def /\ ~req.function_tag.def
OnlyOrganisation ==
  ~req.name.def /\ NonEmpty(req.organisation_id) /\ ~req.function_tag.def
OnlyFunctionTag ==
  ~req.name.def /\ ~req.organisation_id.def /\ NonEmpty(req.function_tag)

\* The run sent exactly one response: the error `error` with status 400
AnsweredError(error) ==
  /\ Len(Responses(effects)) = 1
  /\ Responses(effects)[1].op = "json"
  /\ Responses(effects)[1].status = 400
  /\ Responses(effects)[1].error = error

AnsweredTargetNotFound ==
  /\ Len(Responses(effects)) = 1
  /\ Responses(effects)[1].op = "json"
  /\ Responses(effects)[1].status = 400
  /\ Responses(effects)[1].error \in TargetNotFound

\* The run sent the rendered page, and nothing else
AnsweredPage ==
  /\ Len(Responses(effects)) = 1
  /\ Responses(effects)[1].op = "html"

ThePage == Responses(effects)[1].page

NoLookup == Lookups(effects) = <<>>

LookupsOf(kind) == SelectSeq(effects, LAMBDA x : x.op = "lookup" /\ x.kind = kind)

\* Frame mode as the interface states it: off only for frame=false
FrameModeOn == ~req.frame.def \/ req.frame.val # FalseString

\* The request asks to skip verification the way the handlers read it
VerificationSkipped == req.verify.def /\ ~BooleanOf(req.verify.val)

---------------------------------------------------------------------------
(* C1 -- exclusivity of the target parameters                              *)

\* C1: on /qrcode and on the landing page, a request with two or more
\* non-empty target parameters is answered with AmbiguousTarget (400),
\* whatever the values and whatever the directory returns.  (Requests that
\* /qrcode rejects for size with frame are left out of the statement.)
C1_TwoTargetsAreAmbiguous ==
  (Done /\ (OnQrCode \/ OnLandingMain) /\ TargetParamCount >= 2
        /\ ~(OnQrCode /\ req.size.def /\ FrameModeOn))
    => AnsweredError(AmbiguousTarget)

---------------------------------------------------------------------------
(* C2 -- person names of fewer than two tokens                             *)

\* C2: a non-empty name with fewer than two non-empty whitespace-separated
\* tokens is answered with InvalidPersonName (400) and no directory lookup
\* has been issued.
C2_ShortNameIsInvalid ==
  (Done /\ (OnQrCode \/ OnLandingMain) /\ NonEmpty(req.name)
        /\ Len(NonEmptyTokens(req.name.val)) < 2
        /\ ~(OnQrCode /\ req.size.def /\ FrameModeOn))
    => (AnsweredError(InvalidPersonName) /\ NoLookup)

---------------------------------------------------------------------------
(* C3 -- verify=false                                                      *)

\* C3: a request carrying verify=false issues no directory lookup for a
\* person or a function tag, on either endpoint.
C3_VerifyFalseSkipsLookup ==
  (Done /\ (OnQrCode \/ OnLandingMain) /\ req.verify = Str(FalseString))
    => (LookupsOf("people") = <<>> /\ LookupsOf("function_tag") = <<>>)

---------------------------------------------------------------------------
(* C4 -- landing page of an unverified person                              *)

LinkEndsWith(link, command) ==
  link.def /\ link.val.tail = EncodeURI(<<" ">> \o command)

\* C4: on the landing page, a request whose only target parameter is a
\* valid two-token name, with verification skipped, is answered with the
\* rendered page labelled with the raw name, whose WhatsApp and Telegram
\* links end with "Rechercher <raw name>".
C4_UnverifiedPersonPage ==
  (Done /\ OnLandingMain /\ OnlyName /\ VerificationSkipped
        /\ Len(NonEmptyTokens(req.name.val)) = 2
        /\ Len(Split(req.name.val)) = 2)
    => /\ AnsweredPage
       /\ ThePage.FOLLOW_LABEL = req.name
       /\ LinkEndsWith(ThePage.WHATSAPP_LINK, RechercherCmd \o req.name.val)
       /\ LinkEndsWith(ThePage.TELEGRAM_LINK, RechercherCmd \o req.name.val)

---------------------------------------------------------------------------
(* C5 -- zero matches                                                      *)

\* A lookup of the run returned an empty list
EmptyReply(x) == x.op = "lookup" /\ x.reply.ok /\ x.reply.rows = <<>>

\* C5: with verification in effect, a lookup that returns zero matches
\* makes the request fail with TargetNotFound (400), no image and no page
\* being produced; and a function-tag request on the landing page consults
\* the tag lookup.
C5_ZeroMatchesIsTargetNotFound ==
  Done =>
    /\ (\E i \in 1..Len(effects) : EmptyReply(effects[i]))
         => AnsweredTargetNotFound
    /\ ((OnLandingMain \/ OnLandingChoose) /\ OnlyFunctionTag
          /\ ~VerificationSkipped)
         => LookupsOf("function_tag") # <<>>

\* The same statement, for /qrcode and the main.html landing page alone
C5_OnMainHandlers == (OnQrCode \/ OnLandingMain) => C5_ZeroMatchesIsTargetNotFound

---------------------------------------------------------------------------
(* C6 -- more than one organisation                                        *)

ManyOrganisations(x) ==
  x.op = "lookup" /\ x.kind = "organisation" /\ x.reply.ok /\ Len(x.reply.rows) > 1

\* C6: whenever the organisation lookup returns more than one match, the
\* request is answered with AmbiguousDirectoryMatch (400) and with nothing
\* else: no image and no page is derived from any of the matches.
C6_ManyOrganisationsIsAmbiguous ==
  (Done /\ \E i \in 1..Len(effects) : ManyOrganisations(effects[i]))
    => (AnsweredError(AmbiguousDirectoryMatch) /\ Len(effects) = 2)

C6_Witness ==
  /\ Done /\ OnLandingMain
  /\ req.organisation_id = Str(<<"q">>)
  /\ \E i \in 1..Len(effects) : ManyOrganisations(effects[i])
  /\ AnsweredError(AmbiguousDirectoryMatch)

---------------------------------------------------------------------------
(* C7 -- organisation without verification                                 *)

\* C7: an organisation request for which verification is skipped is
\* rejected with VerificationRequired exactly when its identifier does not
\* begin with "Q"; when it does, the target is accepted without a lookup.
C7_UnverifiedOrganisation ==
  (Done /\ (OnQrCode \/ OnLandingMain) /\ OnlyOrganisation /\ VerificationSkipped
        /\ ~(OnQrCode /\ req.size.def /\ FrameModeOn))
    => LET id == ToUpperCase(req.organisation_id.val)
       IN /\ AnsweredError(VerificationRequired) <=> ~StartsWith(id, QMarker)
          /\ StartsWith(id, QMarker) => NoLookup

---------------------------------------------------------------------------
(* C8 -- size with frame mode                                              *)

\* C8: on /qrcode, a request that supplies size while frame mode is on is
\* answered with SizeFrameConflict (400); the run issues no lookup and
\* produces no image, whatever the target parameters.
C8_SizeWithFrameIsConflict ==
  (Done /\ OnQrCode /\ req.size.def /\ FrameModeOn)
    => effects = <<Json(400, SizeFrameConflict, <<>>)>>

C8_Witness ==
  /\ Done /\ OnQrCode
  /\ req.size = Str(SizeValue) /\ req.frame = Str(TrueString)
  /\ req.name = Str(<<"a", " ", "a">>)
  /\ effects = <<Json(400, SizeFrameConflict, <<>>)>>

---------------------------------------------------------------------------
(* C9 -- landing page of a verified organisation                           *)

OneOrganisation(x) ==
  x.op = "lookup" /\ x.kind = "organisation" /\ x.reply.ok /\ Len(x.reply.rows) = 1

---------------------------------------------------------------------------
(* C10 -- the organisation identifier is uppercased                        *)

\* C10: on both endpoints the value passed to the organisation lookup and
\* embedded in the generated URL is the uppercased organisation_id.
C10_OrganisationIdUppercased ==
  (Done /\ (OnQrCode \/ OnLandingMain) /\ OnlyOrganisation)
    => LET id == ToUpperCase(req.organisation_id.val)
       IN \A i \in 1..Len(effects) :
            /\ (effects[i].op = "lookup") => effects[i].arg = id
            /\ (effects[i].op = "image")
                 => effects[i].qr.data.query
                      = EncodeURI(EncodeURI(QrOrganisationParam \o id))

---------------------------------------------------------------------------
(* C11 -- no target parameter                                              *)

NoTargetParam ==
  ~req.name.def /\ ~req.organisation_id.def /\ ~req.function_tag.def

OnLanding == OnLandingMain \/ OnLandingChoose

\* The run sent exactly one response: a redirect to `url`
AnsweredRedirect(url) == Responses(effects) = <<Redirect(url)>>

\* C11: on the landing page a request with none of the three target
\* parameters is answered with a redirect to the marketing site
\* ("https://" + HOME_WEBSITE_URL) and no page is rendered; on /qrcode it is
\* answered with NoTarget (400) and no image.  (Requests that /qrcode
\* rejects for size with frame are left out of the statement.)
C11_NoTargetRedirectsToMarketingSite ==
  (Done /\ NoTargetParam)
    => /\ OnLanding => AnsweredRedirect("https://" \o HOME_WEBSITE_URL)
       /\ (OnQrCode /\ ~SizeFrameConflicts(req)) => AnsweredError(NoTarget)

\* The part of C11 that holds: /qrcode answers NoTarget
C11_QrCodeAnswersNoTarget ==
  (Done /\ NoTargetParam /\ OnQrCode /\ ~SizeFrameConflicts(req))
    => AnsweredError(NoTarget)

\* The part of C11 that fails only outside development: the main.html
\* handler redirects to the marketing site when isDev
C11_DevelopmentRedirectsToMarketingSite ==
  (Done /\ NoTargetParam /\ OnLandingMain /\ env.isDev)
    => AnsweredRedirect("https://" \o HOME_WEBSITE_URL)

---------------------------------------------------------------------------
(* C12 -- function-tag targets                                             *)

\* No awaited operation of the run failed: every lookup returned, and no
\* image or file operation rejected
NoFailure ==
  \A i \in 1..Len(effects) :
    /\ effects[i].op = "lookup" => effects[i].reply.ok
    /\ effects[i].op # "throw"

\* Every lookup of the run returned at least one row
EveryLookupMatched ==
  \A i \in 1..Len(effects) :
    effects[i].op = "lookup"
      => (effects[i].reply.ok /\ effects[i].reply.rows # <<>>)

\* The run sent exactly one response: an image labelled `label`
AnsweredImageLabelled(label) ==
  /\ Len(Responses(effects)) = 1
  /\ Responses(effects)[1].op = "image"
  /\ Responses(effects)[1].label = label

\* C12: on both endpoints a request whose only target parameter is a
\* non-empty function_tag, whose tag lookup (when one is issued) returns a
\* match and whose image operations succeed, is answered with an image or
\* a page labelled with the raw tag, never with a validation error.
C12_FunctionTagIsLabelledWithRawTag ==
  (Done /\ (OnQrCode \/ OnLandingMain) /\ OnlyFunctionTag
        /\ ~(OnQrCode /\ SizeFrameConflicts(req))
        /\ NoFailure /\ EveryLookupMatched)
    => \/ AnsweredImageLabelled(req.function_tag)
       \/ (AnsweredPage /\ ThePage.FOLLOW_LABEL = req.function_tag)

\* The part of C12 that holds: /qrcode
C12_QrCodeFunctionTag ==
  (Done /\ OnQrCode /\ OnlyFunctionTag /\ ~SizeFrameConflicts(req)
        /\ NoFailure /\ EveryLookupMatched)
    => AnsweredImageLabelled(req.function_tag)

\* What the main.html handler answers instead
C12_LandingFunctionTagHasNoLabel ==
  (Done /\ OnLandingMain /\ OnlyFunctionTag
        /\ NoFailure /\ EveryLookupMatched)
    => AnsweredError(LabelNotFound)

---------------------------------------------------------------------------
(* C13 -- analytics after the response                                     *)

\* The effect at position i is an analytics event that comes after a response
LoggedAfterResponse(i) ==
  \E j \in 1..(i - 1) : effects[j].op \in ResponseOps

\* C13: on both endpoints every analytics event of a run is logged after
\* the run's response has been sent, and an error of the sink is caught in
\* the logger: no failure response follows the event.
C13_AnalyticsLoggedAfterResponse ==
  (Done /\ (OnQrCode \/ OnLandingMain))
    => \A i \in 1..Len(effects) :
         effects[i].op = "log"
           => /\ LoggedAfterResponse(i)
              /\ \A k \in (i + 1)..Len(effects) :
                   ~(effects[k].op = "json" /\ effects[k].status = 500)

\* The part of C13 that holds: /qrcode logs after the image is sent
C13_QrCodeLogsAfterImage ==
  (Done /\ OnQrCode)
    => \A i \in 1..Len(effects) :
         effects[i].op = "log" => LoggedAfterResponse(i)

\* What the landing handlers do instead: the event is awaited first
C13_LandingLogsBeforeResponse ==
  (Done /\ OnLanding)
    => \A i \in 1..Len(effects) :
         effects[i].op = "log"
           => (~LoggedAfterResponse(i) /\ i < Len(effects)
               /\ effects[i + 1].op \in {"html", "redirect"})

---------------------------------------------------------------------------
(* C14 -- exactly one response                                             *)

GenericFailure == {QrFailure, PageFailure}

\* C14: every request to /qrcode or / ends with exactly one response.  When
\* an awaited operation failed (a directory lookup, the QR generation, the
\* frame file) it is a 500 JSON error with the generic message; otherwise
\* it is a 400 JSON error with a specific message, or an image, a page or
\* a redirect.  Nothing is sent after the response.
C14_ExactlyOneResponse ==
  Done =>
    LET R == Responses(effects)
    IN /\ Len(R) = 1
       /\ ~NoFailure
            => (R[1].op = "json" /\ R[1].status = 500
                /\ R[1].error \in GenericFailure)
       /\ NoFailure
            => \/ (R[1].op = "json" /\ R[1].status = 400
                   /\ R[1].error \notin GenericFailure)
               \/ (R[1].op \in {"image", "html", "redirect"})
       /\ R[1].op = "image" /\ R[1].framed
            => Len(R[1].composite.layers) = 2

\* /qrcode in frame mode outside development: the image is sent, then the
\* post of the analytics event fails
C14_Witness ==
  /\ Done /\ OnQrCode /\ ~env.isDev
  /\ Len(effects) >= 2
  /\ effects[Len(effects) - 1].op = "image"
  /\ effects[Len(effects) - 1].framed
  /\ effects[Len(effects)].op = "log"
  /\ effects[Len(effects)].outcome = "caught"

\* /qrcode in frame mode: the QR is generated, the frame file is unreadable
C14_FrameFailureAnswered ==
  /\ Done /\ OnQrCode
  /\ \E i \in 1..Len(effects) : effects[i] = Throw("frame")
  /\ Responses(effects) = <<Json(500, QrFailure, <<>>)>>

---------------------------------------------------------------------------
(* C15 -- size of the unframed QR code                                     *)

\* C15: on /qrcode with frame=false the bitmap that is returned is as wide
\* as the QR size computed from the request: N pixels for size=N, the
\* default size (DEFAULT_QRCODE_SIZE) when size is absent.
C15_BitmapHasRequestedSize ==
  (Done /\ OnQrCode)
    => \A i \in 1..Len(effects) :
         (effects[i].op = "image" /\ ~effects[i].framed)
           => effects[i].qr.width = QrCodeSize(req)

\* What the handler returns instead: the generator's own default width,
\* whatever the request
C15_BitmapHasGeneratorDefaultSize ==
  (Done /\ OnQrCode)
    => \A i \in 1..Len(effects) :
         effects[i].op = "image" => effects[i].qr.width = QR_SIZE_DEFAULT

---------------------------------------------------------------------------
(* C16 -- empty target parameters                                          *)

\* The parameter is in the query with the empty string as its value
EmptyParam(x) == x.def /\ x.val = <<>>

SomeEmptyTargetParam ==
  \E k \in {"name", "organisation_id", "function_tag"} : EmptyParam(req[k])

\* The query parameter a lookup of the given kind takes its argument from
ParamOfLookup(kind) ==
  CASE kind = "people" -> req.name
    [] kind = "organisation" -> req.organisation_id
    [] kind = "function_tag" -> req.function_tag

\* C16: on both endpoints a target parameter given as the empty string is
\* treated as absent: it raises no InvalidPersonName, it is not counted for
\* the exclusivity of the targets, and no lookup is issued for it.
C16_EmptyParamIsAbsent ==
  (Done /\ (OnQrCode \/ OnLandingMain) /\ SomeEmptyTargetParam
        /\ ~(OnQrCode /\ SizeFrameConflicts(req)))
    => /\ EmptyParam(req.name) => ~AnsweredError(InvalidPersonName)
       /\ TargetParamCount <= 1 => ~AnsweredError(AmbiguousTarget)
       /\ \A i \in 1..Len(effects) :
            effects[i].op = "lookup"
              => NonEmpty(ParamOfLookup(effects[i].kind))

\* The part of C16 that holds: /qrcode
C16_QrCodeEmptyParamIsAbsent ==
  (Done /\ OnQrCode /\ SomeEmptyTargetParam /\ ~SizeFrameConflicts(req))
    => /\ EmptyParam(req.name) => ~AnsweredError(InvalidPersonName)
       /\ TargetParamCount <= 1 => ~AnsweredError(AmbiguousTarget)
       /\ TargetParamCount = 0 => AnsweredError(NoTarget)
       /\ \A i \in 1..Len(effects) :
            effects[i].op = "lookup"
              => NonEmpty(ParamOfLookup(effects[i].kind))

\* What the landing handlers do instead: an empty name is a name of fewer
\* than two words
C16_LandingEmptyNameIsInvalid ==
  (Done /\ OnLanding /\ EmptyParam(req.name))
    => AnsweredError(InvalidPersonName)

---------------------------------------------------------------------------
(* C17 -- the command of the messenger deep links                          *)

\* The start command is "<verb> <argument>": what follows its first space
CommandArgument(command) ==
  LET first == CHOOSE i \in 1..Len(command) :
                 command[i] = " " /\ \A j \in 1..(i - 1) : command[j] # " "
  IN SubSeq(command, first + 1, Len(command))

\* The command of the WhatsApp and Telegram links of the page
CommandLinks == {ThePage.WHATSAPP_LINK, ThePage.TELEGRAM_LINK}

\* C17: in the messenger deep links of the landing page the command is
\* "Rechercher <argument>" for every target kind, <argument> being the
\* argument of the start command, unchanged.
C17_LinkVerbIsRechercher ==
  (Done /\ OnLandingMain /\ AnsweredPage)
    => \A link \in CommandLinks :
         link.def
           => LinkEndsWith(link,
                RechercherCmd
                  \o CommandArgument(Responses(effects)[1].startCommand))

\* What the handlers put in the links: only the "Suivre" prefix of the verb
\* is replaced, the kind letter stays
SmoothedVerb(startCommand) ==
  IF StartsWith(startCommand, SuivreOCmd) THEN Rechercher \o <<"O", " ">>
  ELSE IF StartsWith(startCommand, SuivreFCmd) THEN Rechercher \o <<"F", " ">>
  ELSE RechercherCmd

C17_LinkVerbKeepsKindLetter ==
  (Done /\ OnLanding /\ AnsweredPage)
    => \A link \in CommandLinks :
         link.def
           => LinkEndsWith(link,
                SmoothedVerb(Responses(effects)[1].startCommand)
                  \o CommandArgument(Responses(effects)[1].startCommand))

---------------------------------------------------------------------------
(* C18 -- messenger blocks and their links                                 *)

\* Per messenger: whether its block is in the page, the link put in place
\* of its link placeholder, and whether its link base is configured
Messengers(e, page) ==
  { [block |-> page.WHATSAPP_BLOCK, link |-> page.WHATSAPP_LINK,
     configured |-> whatsappLinkBase(e).def],
    [block |-> page.TELEGRAM_BLOCK, link |-> page.TELEGRAM_LINK,
     configured |-> telegramLinkBase(e).def],
    [block |-> page.MATRIX_BLOCK, link |-> page.MATRIX_LINK,
     configured |-> matrixLinkBase(e).def],
    [block |-> page.TCHAP_BLOCK, link |-> page.TCHAP_LINK,
     configured |-> tchapLinkBase(e).def] }

\* C18: for each messenger, whatever the value of its configuration
\* variable (unset, empty, non-empty), its block is in the rendered page
\* iff its link base is configured, and every block in the page has its
\* link placeholder replaced by a URL.
C18_BlockIffLinkBase ==
  (Done /\ OnLandingMain /\ AnsweredPage)
    => \A m \in Messengers(env, ThePage) :
         /\ m.block <=> m.configured
         /\ m.block => m.link.def

\* The part of C18 that holds: a configured link base gives a block with
\* its link, and no block appears for a variable that is unset
C18_ConfiguredBlockHasLink ==
  (Done /\ OnLanding /\ AnsweredPage)
    => \A m \in Messengers(env, ThePage) :
         /\ m.configured => (m.block /\ m.link.def)
         /\ m.link.def => m.configured

---------------------------------------------------------------------------
(* C19 -- percent-encoding of the destination URL                          *)

\* C19: the URL encoded into the QR is the destination URL percent-encoded
\* exactly once: a %20 made by the handler from the space of a person name
\* reaches the QR unchanged.
C19_UrlEncodedOnce ==
  (Done /\ OnQrCode)
    => \A i \in 1..Len(effects) :
         effects[i].op = "image"
           => effects[i].qr.data = EncodeUrl(effects[i].qr_url)

\* What reaches the QR instead: the URL encoded by the handler, encoded
\* again by generateQrWithLogo
C19_UrlEncodedTwice ==
  (Done /\ OnQrCode)
    => \A i \in 1..Len(effects) :
         effects[i].op = "image"
           => effects[i].qr.data = EncodeUrl(EncodeUrl(effects[i].qr_url))

---------------------------------------------------------------------------
(* C20 -- placement of the layers on the frame                             *)

\* C20: in frame mode, on a frame of W x H pixels, the QR layer is at left
\* offset round((W - q) / 2), q being the width of the QR bitmap that is
\* composited, and at top offset round(0.45 * H); the text layer comes
\* after it, at top offset round(0.35 * H).
C20_QrLayerIsCentred ==
  (Done /\ OnQrCode)
    => \A i \in 1..Len(effects) :
         (effects[i].op = "image" /\ effects[i].framed)
           => LET c == effects[i].composite
                  q == effects[i].qr.width
              IN /\ Len(c.layers) = 2
                 /\ c.layers[1].input = "qr"
                 /\ c.layers[1].left = RoundHalf(c.width - q)
                 /\ c.layers[1].top = RoundPercent(c.height, 45)
                 /\ c.layers[2].input = "text"
                 /\ c.layers[2].top = RoundPercent(c.height, 35)

\* What the handler computes instead: the left offset of a bitmap of
\* DEFAULT_QRCODE_SIZE pixels, the bitmap being QR_SIZE_DEFAULT wide
C20_QrLayerIsOffCentre ==
  (Done /\ OnQrCode)
    => \A i \in 1..Len(effects) :
         (effects[i].op = "image" /\ effects[i].framed)
           => LET c == effects[i].composite
              IN /\ effects[i].qr.width = QR_SIZE_DEFAULT
                 /\ c.layers[1].left = RoundHalf(c.width - DEFAULT_QRCODE_SIZE)
                 /\ c.layers[1].top = RoundPercent(c.height, 45)
                 /\ c.layers[2].top = RoundPercent(c.height, 35)

---------------------------------------------------------------------------
(* C21 -- the endpoints read each other's URLs                             *)

\* String.prototype.split(sep) for a one-character separator
RECURSIVE SplitOnFrom(_, _, _, _)
SplitOnFrom(s, sep, i, cur) ==
  IF i > Len(s) THEN <<cur>>
  ELSE IF s[i] = sep THEN <<cur>> \o SplitOnFrom(s, sep, i + 1, <<>>)
  ELSE SplitOnFrom(s, sep, i + 1, Append(cur, s[i]))

SplitOn(s, sep) == SplitOnFrom(s, sep, 1, <<>>)

\* Percent-decoding of a query value, once: %20 is a space, %25 a percent
RECURSIVE DecodeURIComponent(_)
DecodeURIComponent(s) ==
  IF s = <<>> THEN <<>>
  ELSE IF Len(s) >= 3 /\ SubSeq(s, 1, 3) = <<"%", "2", "0">>
  THEN <<" ">> \o DecodeURIComponent(SubSeq(s, 4, Len(s)))
  ELSE IF Len(s) >= 3 /\ SubSeq(s, 1, 3) = <<"%", "2", "5">>
  THEN <<"%">> \o DecodeURIComponent(SubSeq(s, 4, Len(s)))
  ELSE <<Head(s)>> \o DecodeURIComponent(Tail(s))

\* key=value: the key is what precedes the first "="
PairKey(pair) == SplitOn(pair, "=")[1]
PairValue(pair) ==
  DecodeURIComponent(SubSeq(pair, Len(PairKey(pair)) + 2, Len(pair)))

\* req.query[key] for the query string "?k1=v1&k2=v2" of a URL
QueryParam(query, key) ==
  LET pairs == SelectSeq(SplitOn(Tail(query), "&"),
                         LAMBDA p : p # <<>> /\ PairKey(p) = key)
  IN IF pairs = <<>> THEN Undefined ELSE Str(PairValue(pairs[1]))

NameKey == <<"n", "a", "m", "e">>
OrganisationIdKey ==
  <<"o", "r", "g", "a", "n", "i", "s", "a", "t", "i", "o", "n", "_", "i", "d">>
FunctionTagKey ==
  <<"f", "u", "n", "c", "t", "i", "o", "n", "_", "t", "a", "g">>

\* The target parameters both handlers read from a request for `query`
TargetsOf(query) ==
  [name |-> QueryParam(query, NameKey),
   organisation_id |-> QueryParam(query, OrganisationIdKey),
   function_tag |-> QueryParam(query, FunctionTagKey)]

\* The request carries the target `id` of kind `kind`, and no other target
RecognisedAs(targets, kind, id) ==
  /\ targets.name = IF kind = "people" THEN Str(id) ELSE Undefined
  /\ targets.organisation_id
       = IF kind = "organisation" THEN Str(id) ELSE Undefined
  /\ targets.function_tag
       = IF kind = "function_tag" THEN Str(id) ELSE Undefined

\* The target /qrcode resolved, for a run that sent the image `img`
QrTargetKind ==
  IF NonEmpty(req.name) THEN "people"
  ELSE IF NonEmpty(req.organisation_id) THEN "organisation"
  ELSE "function_tag"

QrTargetId(img) ==
  CASE QrTargetKind = "people" -> img.label.val
    [] QrTargetKind = "organisation" -> req.organisation_id.val
    [] QrTargetKind = "function_tag" -> req.function_tag.val

\* The target the landing page resolved, read from its start command
PageTargetKind(startCommand) ==
  IF StartsWith(startCommand, SuivreOCmd) THEN "organisation"
  ELSE IF StartsWith(startCommand, SuivreFCmd) THEN "function_tag"
  ELSE "people"

\* The URL in the QR of every image of the run, requested at the landing
\* page, carries the target that /qrcode resolved
QrUrlIsReadByLanding(kinds) ==
  \A i \in 1..Len(effects) :
    (effects[i].op = "image" /\ QrTargetKind \in kinds)
      => RecognisedAs(TargetsOf(effects[i].qr.data.query),
                      QrTargetKind, QrTargetId(effects[i]))

\* The QR image URL of the page, requested at /qrcode, carries the target
\* that the landing page resolved
ImageUrlIsReadByQrCode(kinds) ==
  LET startCommand == Responses(effects)[1].startCommand
  IN (AnsweredPage /\ ThePage.QRCODE.def
        /\ PageTargetKind(startCommand) \in kinds)
       => RecognisedAs(TargetsOf(ThePage.QRCODE.val.query),
                       PageTargetKind(startCommand),
                       CommandArgument(startCommand))

TargetKinds == {"people", "organisation", "function_tag"}

\* C21: the two endpoints agree on the names of their query parameters,
\* for every target kind: the URL that /qrcode puts in the QR is read by
\* the landing page as the same target, and the QR image URL that the
\* landing page builds is read by /qrcode as the same target.
C21_EndpointsAgreeOnParameterNames ==
  Done => /\ OnQrCode => QrUrlIsReadByLanding(TargetKinds)
          /\ OnLandingMain => ImageUrlIsReadByQrCode(TargetKinds)

\* The parts of C21 that hold: function tags from /qrcode to the landing
\* page, persons and function tags from the landing pages to /qrcode
C21_AgreementOutsideOrganisations ==
  Done => /\ OnQrCode => QrUrlIsReadByLanding({"function_tag"})
          /\ OnLanding => ImageUrlIsReadByQrCode({"people", "function_tag"})

\* What an organisation URL is read as, in both directions: no target
C21_OrganisationUrlCarriesNoTarget ==
  Done =>
    /\ (OnQrCode /\ QrTargetKind = "organisation")
         => \A i \in 1..Len(effects) :
              effects[i].op = "image"
                => RecognisedAs(TargetsOf(effects[i].qr.data.query), "none", <<>>)
    /\ (OnLanding /\ AnsweredPage /\ ThePage.QRCODE.def
          /\ PageTargetKind(Responses(effects)[1].startCommand) = "organisation")
         => RecognisedAs(TargetsOf(ThePage.QRCODE.val.query), "none", <<>>)

---------------------------------------------------------------------------
(* C22 -- one analytics event per image                                    *)

\* The analytics events of the run, in order
Events == SelectSeq(effects, LAMBDA x : x.op = "log")

\* Exactly one event, named after the resolved target kind, after the image
OneEventAfterImage ==
  /\ Len(Events) = 1
  /\ Events[1].event = QrEvent(QrTargetKind)
  /\ effects[Len(effects)].op = "log"
  /\ effects[Len(effects) - 1].op = "image"

\* C22: every image that /qrcode sends, framed or unframed, is followed by
\* exactly one analytics event named after the resolved target kind
\* (/qr-people, /qr-organisation, /qr-tag); a request answered with an
\* error logs no event.
C22_OneEventPerImage ==
  (Done /\ OnQrCode)
    => /\ Responses(effects)[1].op = "image" => OneEventAfterImage
       /\ Responses(effects)[1].op = "json" => Events = <<>>

\* The part of C22 that holds: framed images, and errors
C22_OneEventPerFramedImage ==
  (Done /\ OnQrCode)
    => /\ (Responses(effects)[1].op = "image" /\ Responses(effects)[1].framed)
            => OneEventAfterImage
       /\ Responses(effects)[1].op = "json" => Events = <<>>

\* What the handler does for frame=false: the image, and no event
C22_UnframedImageLogsNothing ==
  (Done /\ OnQrCode /\ Responses(effects)[1].op = "image"
        /\ ~Responses(effects)[1].framed)
    => Events = <<>>

====
